---- MODULE Spec2Model ----
(***************************************************************************)
(* A model of src/main.js: the HandTracker gesture recogniser, the         *)
(* AvatarController smoothing and the AvatarApp tracking loop.             *)
(*                                                                         *)
(* Hand coordinates are normalised landmark coordinates in hundredths (30  *)
(* is 0.30), so the thresholds 0.12 and 0.1 of the source are 12 and 10.   *)
(* Times are milliseconds as read from Date.now().  The trackers are       *)
(* initialised (their landmarkers exist, HandTracker.enabled is true) and  *)
(* the webcam is running, as they are once initialize() has returned.      *)
(***************************************************************************)
EXTENDS Integers, Sequences, FiniteSets, TLC

VARIABLES
    now,              \* the value Date.now() returns
    motion,           \* what the hand detector reports, detection after detection
    phase,            \* the position in motion of the detector's last invocation
    pending,          \* the gesture calls the driver still makes for this detection
    throws,           \* how many times the hand detector has thrown
    lastResults,      \* HandTracker.lastResults
    frameCount,       \* HandTracker.frameCount
    wristHistory,     \* HandTracker.wristHistory
    lastWaveTime,     \* HandTracker.lastWaveTime
    lastThumbsUpTime, \* HandTracker.lastThumbsUpTime
    waveRet,          \* what the last detectWave call returned
    thumbsRet,        \* what the last detectThumbsUp call returned
    fired,            \* the times at which detectWave and detectThumbsUp returned true
    avatarController, \* the AvatarController: head bone, smoothed values, morph meshes
    landmarksIn,      \* the argument of the last updateFromFaceData call
    updateThrew,      \* whether the last updateFromFaceData call threw
    updates,          \* how many times updateFromFaceData has been called
    held,             \* how many calls in a row were given the landmarks of the last one
    faceResults,      \* FaceTracker.lastResults
    loopScheduled,    \* trackLoop is registered with requestAnimationFrame
    particlesEnabled, \* AvatarApp.particlesEnabled
    particlesActive,  \* the particles toggle button carries the class 'active'
    videoTime,        \* video.currentTime, counted in frames
    lastVideoTime,    \* AvatarApp.lastVideoTime
    tickLog,          \* what the last run of trackLoop did, in order
    processedTicks,   \* how many runs of trackLoop found a new video frame, modulo 2
    loadOutcome,      \* where loadAvatar is: not called, loading, returned or thrown
    attempt,          \* the index i + 1 of the URL loadAvatar is trying
    loads,            \* per URL, the request of loader.load
    timers,           \* per URL, the setTimeout of tryLoadAvatar
    promises,         \* per URL, the promise tryLoadAvatar returned
    scene,            \* the avatars added to the scene, by URL, in order
    avatar            \* AvatarApp.avatar: the URL of its model, 0 for null

handVars == <<now, motion, phase, pending, throws, lastResults, frameCount, wristHistory,
              lastWaveTime, lastThumbsUpTime, waveRet, thumbsRet, fired>>
faceVars == <<avatarController, landmarksIn, updateThrew, updates, held>>
loadVars == <<loadOutcome, attempt, loads, timers, promises, scene, avatar>>
loopVars == <<faceResults, loopScheduled, particlesEnabled, particlesActive, videoTime,
              lastVideoTime, tickLog, processedTicks, loadVars>>
vars == <<handVars, faceVars, loopVars>>

-----------------------------------------------------------------------------
(* Program constants of HandTracker *)

maxHistoryLength == 15
gestureThrottle == 2000
minWaveSamples == 12
minDirectionChanges == 2
minXRange == 12
maxVerticalCeiling == 12
fingerTolerance == 10
handThrottleFrames == 2

(* Bounds of the model *)

StartTime == 2000
MaxTime == 4000
MaxPeriod == 2
MaxThrows == 1
MaxFaceUpdates == 3
MaxVideoFrames == 3
MaxLidSum == 24

ClockSteps == {1000}

\* F applied to the value of v, which is computed once
WithValue(v, F(_)) == CHOOSE r \in {F(x) : x \in {v}} : TRUE

-----------------------------------------------------------------------------
(* Hand landmarks: the wrist (index 0) with x and y, and the y of the      *)
(* thumb tip (4), thumb IP joint (3) and the four fingertips (8,12,16,20). *)

Hand(wx, wy, tTip, tIp, iTip, mTip, rTip, pTip) ==
    [wrist |-> [x |-> wx, y |-> wy], thumbTip |-> tTip, thumbIp |-> tIp,
     indexTip |-> iTip, middleTip |-> mTip, ringTip |-> rTip, pinkyTip |-> pTip]

\* an open hand whose wrist is at (wx, wy): the thumb tip is 0.1 below the wrist
OpenHand(wx, wy) == Hand(wx, wy, wy + 10, wy + 5, wy + 5, wy + 5, wy + 5, wy + 5)
\* a thumbs-up hand: thumb tip 0.2 above the wrist, IP joint 0.1 above it, the
\* four fingertips 0.05 below it
ThumbsUpHand(wx, wy) == Hand(wx, wy, wy - 20, wy - 10, wy + 5, wy + 5, wy + 5, wy + 5)

HandLeft == OpenHand(30, 50)
HandRight == ThumbsUpHand(50, 50)
HandNear == OpenHand(40, 50)
HandHigh == OpenHand(50, 62)

\* what HandLandmarker.detectForVideo can return as result.landmarks
HandFrames == { <<>>, <<HandLeft>>, <<HandRight>> }

\* the detector's successive results: every cycle of at most MaxPeriod frames, a
\* narrow wave, a wave with vertical motion and a slow one-way sweep
Cycles(frames) == UNION { [1..n -> frames] : n \in 1..MaxPeriod }
NarrowWave == <<<<HandLeft>>, <<HandNear>>>>
BouncyWave == <<<<HandLeft>>, <<HandHigh>>>>
SlowWave == <<<<HandLeft>>, <<HandLeft>>, <<HandRight>>, <<HandRight>>>>
SlowSweep == [i \in 1..16 |-> IF i <= 8 THEN <<OpenHand(30 + i, 50)>>
                                ELSE <<OpenHand(46 - i, 50)>>]
\* one hand after the other around the thresholds of detectThumbsUp
ThumbPoses ==
    << <<ThumbsUpHand(50, 50)>>,
       <<Hand(50, 50, 60, 40, 55, 55, 55, 55)>>,
       <<Hand(50, 50, 50, 55, 55, 55, 55, 55)>>,
       <<Hand(50, 50, 45, 45, 55, 55, 55, 55)>>,
       <<Hand(50, 50, 30, 40, 40, 55, 55, 55)>>,
       <<Hand(50, 50, 30, 40, 55, 41, 55, 55)>>,
       <<Hand(50, 50, 30, 40, 55, 55, 39, 55)>>,
       <<Hand(50, 50, 30, 40, 55, 55, 55, 40)>> >>
\* two hands, the second one a thumbs-up
TwoHands == << <<OpenHand(50, 50), ThumbsUpHand(70, 50)>> >>
Motions == Cycles(HandFrames)
           \cup {NarrowWave, BouncyWave, SlowWave, SlowSweep, ThumbPoses, TwoHands}

NoResults == [null |-> TRUE, landmarks |-> <<>>]
Results(hands) == [null |-> FALSE, landmarks |-> hands]

-----------------------------------------------------------------------------
(* HandTracker.detectWave *)

Abs(v) == IF v < 0 THEN 0 - v ELSE v
Max(a, b) == IF a > b THEN a ELSE b
Min(a, b) == IF a < b THEN a ELSE b

\* a direction that takes a move to the left for no move
DirectionRightOnly(dx) == IF dx > 0 THEN 1 ELSE 0

\* const direction = dx > 0 ? 1 : dx < 0 ? -1 : 0
Direction(dx) == IF dx > 0 THEN 1 ELSE IF dx < 0 THEN -1 ELSE 0

\* the loop of lines 412-423 from index i (1-based: the step from i-1 to i),
\* carrying directionChanges, lastDirection and maxVerticalChange
RECURSIVE WaveLoop(_, _, _, _, _)
WaveLoop(h, i, changes, lastDirection, maxVert) ==
    IF i > Len(h) THEN [directionChanges |-> changes, maxVerticalChange |-> maxVert]
    ELSE LET dx == h[i].x - h[i - 1].x
             dy == Abs(h[i].y - h[i - 1].y)
             direction == Direction(dx)
             counted == direction # 0 /\ direction # lastDirection /\ lastDirection # 0
         IN  WaveLoop(h, i + 1, IF counted THEN changes + 1 ELSE changes,
                      direction, Max(maxVert, dy))

WaveStats(h) == WaveLoop(h, 2, 0, 0, 0)

RECURSIVE SeqMaxX(_, _)
SeqMaxX(h, i) == IF i = Len(h) THEN h[i].x ELSE Max(h[i].x, SeqMaxX(h, i + 1))
RECURSIVE SeqMinX(_, _)
SeqMinX(h, i) == IF i = Len(h) THEN h[i].x ELSE Min(h[i].x, SeqMinX(h, i + 1))

\* Math.max(...xValues) - Math.min(...xValues)
XRange(h) == SeqMaxX(h, 1) - SeqMinX(h, 1)

\* a push that drops the newest sample of an overfull history, not the oldest
PushSampleKeepOldest(h, s) ==
    IF Len(h) >= maxHistoryLength THEN h ELSE Append(h, s)

\* this.wristHistory.push(sample); if (length > maxHistoryLength) shift()
PushSample(h, s) ==
    LET pushed == Append(h, s)
    IN  IF Len(pushed) > maxHistoryLength THEN Tail(pushed) ELSE pushed

HasHands(r) == ~r.null /\ Len(r.landmarks) > 0

\* a cooldown of half the length, which the spacing property must tell from
\* InCooldown
InCooldownHalved(t, last) == 2 * (t - last) < gestureThrottle

InCooldown(t, last) == t - last < gestureThrottle

\* a wave condition without the ceiling on vertical movement
WaveConditionAnyHeight(h) ==
    /\ WaveStats(h).directionChanges >= minDirectionChanges
    /\ XRange(h) > minXRange

WaveCondition(h) ==
    WithValue(WaveStats(h), LAMBDA stats :
        /\ stats.directionChanges >= minDirectionChanges
        /\ XRange(h) > minXRange
        /\ stats.maxVerticalChange < maxVerticalCeiling)

\* the whole of detectWave: the new wristHistory, lastWaveTime and the result
WaveResult(r, h, last, t) ==
    IF ~HasHands(r) \/ InCooldown(t, last)
    THEN [history |-> h, lastWaveTime |-> last, ret |-> FALSE]
    ELSE LET wrist == r.landmarks[1].wrist
         IN  WithValue(PushSample(h, [x |-> wrist.x, y |-> wrist.y]), LAMBDA pushed :
                 IF Len(pushed) < minWaveSamples
                 THEN [history |-> pushed, lastWaveTime |-> last, ret |-> FALSE]
                 ELSE IF WaveCondition(pushed)
                      THEN [history |-> <<>>, lastWaveTime |-> t, ret |-> TRUE]
                      ELSE [history |-> pushed, lastWaveTime |-> last, ret |-> FALSE])

DetectWave ==
    \E res \in {WaveResult(lastResults, wristHistory, lastWaveTime, now)} :
        /\ "detectWave" \in pending
        /\ pending' = pending \ {"detectWave"}
        /\ wristHistory' = res.history
        /\ lastWaveTime' = res.lastWaveTime
        /\ waveRet' = res.ret
        /\ fired' = IF res.ret THEN [fired EXCEPT !.wave = Append(@, now)] ELSE fired
        /\ UNCHANGED <<now, motion, phase, throws, lastResults, frameCount,
                       lastThumbsUpTime, thumbsRet, faceVars, loopVars>>

-----------------------------------------------------------------------------
(* HandTracker.detectThumbsUp *)

ThumbExtended(hand) ==
    hand.thumbTip < hand.wrist.y /\ hand.thumbTip < hand.thumbIp

\* a curl test without the tolerance of 0.1 above the wrist
FingersCurledBelowWrist(hand) ==
    /\ hand.indexTip > hand.wrist.y
    /\ hand.middleTip > hand.wrist.y
    /\ hand.ringTip > hand.wrist.y
    /\ hand.pinkyTip > hand.wrist.y

FingersCurled(hand) ==
    /\ hand.indexTip > hand.wrist.y - fingerTolerance
    /\ hand.middleTip > hand.wrist.y - fingerTolerance
    /\ hand.ringTip > hand.wrist.y - fingerTolerance
    /\ hand.pinkyTip > hand.wrist.y - fingerTolerance

IsThumbsUp(hand) == ThumbExtended(hand) /\ FingersCurled(hand)

ThumbsResult(r, last, t) ==
    IF ~HasHands(r) \/ InCooldown(t, last)
    THEN [lastThumbsUpTime |-> last, ret |-> FALSE]
    ELSE IF \E i \in 1..Len(r.landmarks) : IsThumbsUp(r.landmarks[i])
         THEN [lastThumbsUpTime |-> t, ret |-> TRUE]
         ELSE [lastThumbsUpTime |-> last, ret |-> FALSE]

DetectThumbsUp ==
    \E res \in {ThumbsResult(lastResults, lastThumbsUpTime, now)} :
        /\ "detectThumbsUp" \in pending
        /\ pending' = pending \ {"detectThumbsUp"}
        /\ lastThumbsUpTime' = res.lastThumbsUpTime
        /\ thumbsRet' = res.ret
        /\ fired' = IF res.ret THEN [fired EXCEPT !.thumbs = Append(@, now)] ELSE fired
        /\ UNCHANGED <<now, motion, phase, throws, lastResults, frameCount,
                       wristHistory, lastWaveTime, waveRet, faceVars, loopVars>>

-----------------------------------------------------------------------------
(* The numbers of AvatarController.  A number is a fraction n/d in lowest   *)
(* terms with d > 0, or one of the values a division by zero yields:        *)
(* Infinity (n = 1, d = 0), -Infinity (n = -1, d = 0) and NaN (n = 0,       *)
(* d = 0).  The arithmetic is exact where the source's doubles round.       *)

RECURSIVE GCD(_, _)
GCD(a, b) == IF b = 0 THEN a ELSE GCD(b, a % b)

LCM(a, b) == (a \div GCD(a, b)) * b

Sign(v) == IF v > 0 THEN 1 ELSE IF v < 0 THEN -1 ELSE 0

\* the numbers, as records
Number == [n : Int, d : Nat]

NaN == [n |-> 0, d |-> 0]
Infinity[sign \in Int] == [n |-> sign, d |-> 0]

\* the number n/d, for integers n and d
Rat[n \in Int, d \in Int] ==
    IF d = 0 THEN [n |-> Sign(n), d |-> 0]
    ELSE LET g == GCD(Abs(n), Abs(d))
         IN  [n |-> Sign(d) * (n \div g), d |-> Abs(d) \div g]

Zero == Rat[0, 1]
One == Rat[1, 1]

IsNaN[a \in Number] == a.n = 0 /\ a.d = 0
IsFinite[a \in Number] == a.d # 0

RNeg[a \in Number] == [n |-> 0 - a.n, d |-> a.d]

\* a + b
RAdd[a \in Number, b \in Number] ==
    IF IsNaN[a] \/ IsNaN[b] THEN NaN
    ELSE IF ~IsFinite[a] THEN (IF ~IsFinite[b] /\ b.n # a.n THEN NaN ELSE a)
    ELSE IF ~IsFinite[b] THEN b
    ELSE LET l == LCM(a.d, b.d)
         IN  Rat[a.n * (l \div a.d) + b.n * (l \div b.d), l]

\* a - b
RSub[a \in Number, b \in Number] == RAdd[a, RNeg[b]]

\* a * b
RMul[a \in Number, b \in Number] ==
    IF IsNaN[a] \/ IsNaN[b] THEN NaN
    ELSE IF ~IsFinite[a] \/ ~IsFinite[b]
         THEN (IF a.n = 0 \/ b.n = 0 THEN NaN ELSE Infinity[Sign(a.n) * Sign(b.n)])
    ELSE LET g1 == GCD(Abs(a.n), b.d)
             g2 == GCD(Abs(b.n), a.d)
         IN  Rat[(a.n \div g1) * (b.n \div g2), (a.d \div g2) * (b.d \div g1)]

\* a / b
RDiv[a \in Number, b \in Number] ==
    IF IsNaN[a] \/ IsNaN[b] THEN NaN
    ELSE IF ~IsFinite[b] THEN (IF IsFinite[a] THEN Zero ELSE NaN)
    ELSE IF b.n = 0 THEN (IF a.n = 0 THEN NaN ELSE Infinity[Sign(a.n)])
    ELSE RMul[a, [n |-> Sign(b.n) * b.d, d |-> Abs(b.n)]]

\* a < b; a comparison with NaN is false
RLess[a \in Number, b \in Number] ==
    IF IsNaN[a] \/ IsNaN[b] THEN FALSE
    ELSE IF ~IsFinite[a] /\ ~IsFinite[b] THEN a.n < b.n
    ELSE IF ~IsFinite[a] THEN a.n < 0
    ELSE IF ~IsFinite[b] THEN b.n > 0
    ELSE LET l == LCM(a.d, b.d)
         IN  a.n * (l \div a.d) < b.n * (l \div b.d)

\* a > b
RGreater[a \in Number, b \in Number] == RLess[b, a]

\* Math.abs
RAbs[a \in Number] == [n |-> Abs(a.n), d |-> a.d]

\* Math.min and Math.max of two numbers: NaN when either is NaN
RMin[a \in Number, b \in Number] == IF IsNaN[a] \/ IsNaN[b] THEN NaN ELSE IF RLess[b, a] THEN b ELSE a
RMax[a \in Number, b \in Number] == IF IsNaN[a] \/ IsNaN[b] THEN NaN ELSE IF RLess[a, b] THEN b ELSE a

\* pi/4 to three decimals
QuarterPi == Rat[785, 1000]

\* Math.atan2(dy, dx) on the directions the modelled faces take: level eyes,
\* eyes tilted by 45 degrees either way, and eyes one above the other
Atan2[dy \in Number, dx \in Number] ==
    CASE dy.n = 0 /\ dx.n >= 0 -> Zero
      [] dy.n > 0 /\ dx = dy -> QuarterPi
      [] dy.n < 0 /\ dx = RNeg[dy] -> RNeg[QuarterPi]
      [] dy.n > 0 /\ dx.n = 0 -> RAdd[QuarterPi, QuarterPi]

-----------------------------------------------------------------------------
(* Face landmarks: a function from landmark indices to points whose x and y *)
(* are in thousandths.  An index the array lacks is outside its domain.     *)

Point(px, py) == [x |-> px, y |-> py]

\* the value of a coordinate
Coord[v \in Int] == Rat[v, 1000]

\* a face looking into the camera: eyes open, mouth slightly open, smiling
FaceNeutral ==
    (1 :> Point(500, 650)) @@ (152 :> Point(500, 850))
    @@ (33 :> Point(400, 400)) @@ (133 :> Point(450, 400))
    @@ (159 :> Point(430, 390)) @@ (145 :> Point(430, 410))
    @@ (158 :> Point(420, 390)) @@ (153 :> Point(420, 410))
    @@ (263 :> Point(600, 400)) @@ (362 :> Point(550, 400))
    @@ (386 :> Point(570, 390)) @@ (374 :> Point(570, 410))
    @@ (385 :> Point(580, 390)) @@ (380 :> Point(580, 410))
    @@ (13 :> Point(500, 700)) @@ (14 :> Point(500, 720))
    @@ (61 :> Point(450, 710)) @@ (291 :> Point(550, 710))
    @@ (70 :> Point(420, 350)) @@ (300 :> Point(580, 350))

\* the head turned, nodding and tilted by 45 degrees
FaceTurned ==
    [FaceNeutral EXCEPT ![1] = Point(560, 700), ![263] = Point(600, 600),
                        ![362] = Point(550, 600), ![300] = Point(580, 550)]

\* both eyes half closed (EAR 0.18), the mouth wide open, the brows raised
FaceExpressive ==
    [FaceNeutral EXCEPT ![159] = Point(430, 391), ![145] = Point(430, 400),
                        ![158] = Point(420, 391), ![153] = Point(420, 400),
                        ![386] = Point(570, 391), ![374] = Point(570, 400),
                        ![385] = Point(580, 391), ![380] = Point(580, 400),
                        ![14] = Point(500, 749),
                        ![70] = Point(420, 310), ![300] = Point(580, 310)]

\* both eyes closed and the mouth shut
FaceClosed ==
    [FaceNeutral EXCEPT ![159] = Point(430, 400), ![145] = Point(430, 405),
                        ![158] = Point(420, 400), ![153] = Point(420, 405),
                        ![386] = Point(570, 400), ![374] = Point(570, 405),
                        ![385] = Point(580, 400), ![380] = Point(580, 405),
                        ![14] = Point(500, 700)]

\* the corners and lids of the left eye coincide: its EAR is 0/0
FaceDegenerate ==
    [FaceNeutral EXCEPT ![133] = Point(400, 400),
                        ![159] = Point(400, 400), ![145] = Point(400, 400),
                        ![158] = Point(400, 400), ![153] = Point(400, 400)]

\* the neutral face with its lids apart by l thousandths in sum over the two lid
\* pairs of the left eye and by r over those of the right eye; the eyes are 0.05
\* wide, so the aspect ratios are l/100 and r/100
LidFace(l, r) ==
    [FaceNeutral EXCEPT ![159] = Point(430, 400), ![145] = Point(430, 400 + (l \div 2)),
                        ![158] = Point(420, 400), ![153] = Point(420, 400 + l - (l \div 2)),
                        ![386] = Point(570, 400), ![374] = Point(570, 400 + (r \div 2)),
                        ![385] = Point(580, 400), ![380] = Point(580, 400 + r - (r \div 2))]

\* the landmark array without index i
Without(face, i) == [j \in DOMAIN face \ {i} |-> face[j]]

NoLandmarks == [null |-> TRUE, points |-> <<>>]
Landmarks(face) == [null |-> FALSE, points |-> face]

\* the landmark arrays updateFromFaceData is called with
FaceInputs ==
    { NoLandmarks, Landmarks(FaceNeutral), Landmarks(FaceTurned),
      Landmarks(FaceExpressive), Landmarks(FaceClosed), Landmarks(FaceDegenerate),
      Landmarks(Without(FaceExpressive, 13)), Landmarks(Without(FaceExpressive, 300)),
      Landmarks(Without(FaceTurned, 1)) }

-----------------------------------------------------------------------------
(* Morph meshes: a morph target dictionary from names to indices and the    *)
(* influences at those indices.                                             *)

Mesh(dictionary) ==
    [morphTargetDictionary |-> dictionary,
     morphTargetInfluences |-> [i \in {dictionary[k] : k \in DOMAIN dictionary} |-> Zero]]

MeshARKit ==
    Mesh(("eyeBlinkLeft" :> 0) @@ ("eyeBlinkRight" :> 1) @@ ("jawOpen" :> 2)
         @@ ("mouthSmile" :> 3) @@ ("browInnerUp" :> 4))
MeshVisemes == Mesh(("mouthClose" :> 0) @@ ("viseme_aa" :> 1))
MeshTeeth == Mesh(("teethOpen" :> 0))

\* what loadAvatar finds in a model: a head bone or none, and its morph meshes
HeadBone == [present |-> TRUE, rotation |-> [x |-> Zero, y |-> Zero, z |-> Zero]]
NoHeadBone == [present |-> FALSE, rotation |-> [x |-> Zero, y |-> Zero, z |-> Zero]]

\* new AvatarController(avatar, headBone, morphMeshes)
NewAvatarController(headBone, morphMeshes) ==
    [headBone |-> headBone,
     morphMeshes |-> morphMeshes,
     smoothedBlink |-> [left |-> One, right |-> One],
     smoothedMouth |-> Zero,
     smoothedSmile |-> Zero,
     smoothedBrowRaise |-> Zero]

Avatars ==
    { NewAvatarController(HeadBone, <<MeshARKit>>),
      NewAvatarController(HeadBone, <<MeshVisemes, MeshTeeth>>),
      NewAvatarController(NoHeadBone, <<MeshARKit>>) }

-----------------------------------------------------------------------------
(* AvatarController *)

\* an interpolation that steps past its target: a + (b - a) * (1 + t)
lerpOvershoot(a, b, t) == RAdd[a, RMul[RSub[b, a], RAdd[One, t]]]

\* lerp(a, b, t): a + (b - a) * t
lerp(a, b, t) == RAdd[a, RMul[RSub[b, a], t]]

\* an eye aspect ratio over the eye's width once, not twice
calculateEARSingleWidth(top, bottom, left, right, top2, bottom2) ==
    RDiv[RAdd[RAbs[RSub[Coord[top.y], Coord[bottom.y]]],
              RAbs[RSub[Coord[top2.y], Coord[bottom2.y]]]],
         RAbs[RSub[Coord[left.x], Coord[right.x]]]]

\* calculateEAR: (vertical1 + vertical2) / (2 * horizontal)
calculateEAR(top, bottom, left, right, top2, bottom2) ==
    LET vertical1 == RAbs[RSub[Coord[top.y], Coord[bottom.y]]]
        vertical2 == RAbs[RSub[Coord[top2.y], Coord[bottom2.y]]]
        horizontal == RAbs[RSub[Coord[left.x], Coord[right.x]]]
    IN  RDiv[RAdd[vertical1, vertical2], RMul[Rat[2, 1], horizontal]]

\* ear > 0.2 ? 1.0 : ear < 0.15 ? 0.0 : (ear - 0.15) / 0.05
EyeOpen[ear \in Number] ==
    IF RGreater[ear, Rat[2, 10]] THEN One
    ELSE IF RLess[ear, Rat[15, 100]] THEN Zero
    ELSE RDiv[RSub[ear, Rat[15, 100]], Rat[5, 100]]

\* the landmarks read before the head rotation is written, and those read after
HeadLandmarks == {1, 33, 263}
ExpressionLandmarks ==
    {159, 145, 33, 133, 158, 153, 386, 374, 362, 263, 385, 380, 13, 14, 61, 291, 70, 300}

\* the raw head pose of lines 536-545
HeadPose(lm) ==
    LET noseTip == lm[1]
        leftEye == lm[33]
        rightEye == lm[263]
        eyeCenterX == RDiv[RAdd[Coord[leftEye.x], Coord[rightEye.x]], Rat[2, 1]]
        eyeDeltaY == RSub[Coord[rightEye.y], Coord[leftEye.y]]
        eyeDeltaX == RSub[Coord[rightEye.x], Coord[leftEye.x]]
    IN  [yaw |-> RMul[RSub[Coord[noseTip.x], eyeCenterX], Rat[4, 1]],
         pitch |-> RSub[RMul[RSub[Coord[noseTip.y], Rat[5, 10]], Rat[2, 1]], Rat[3, 10]],
         roll |-> Atan2[eyeDeltaY, eyeDeltaX]]

\* the raw expression signals of lines 553-598
Expression(lm) ==
    LET leftEAR == calculateEAR(lm[159], lm[145], lm[33], lm[133], lm[158], lm[153])
        rightEAR == calculateEAR(lm[386], lm[374], lm[362], lm[263], lm[385], lm[380])
        mouthHeight == RAbs[RSub[Coord[lm[13].y], Coord[lm[14].y]]]
        mouthWidth == RAbs[RSub[Coord[lm[291].x], Coord[lm[61].x]]]
        smileRatio == RDiv[mouthWidth, RAdd[mouthHeight, Rat[1, 1000]]]
        leftBrowHeight == RSub[Coord[lm[33].y], Coord[lm[70].y]]
        rightBrowHeight == RSub[Coord[lm[263].y], Coord[lm[300].y]]
        browRaise == RMul[RSub[RDiv[RAdd[leftBrowHeight, rightBrowHeight], Rat[2, 1]],
                               Rat[4, 100]], Rat[10, 1]]
    IN  [leftEyeOpen |-> EyeOpen[leftEAR],
         rightEyeOpen |-> EyeOpen[rightEAR],
         mouthOpen |-> RMin[RMul[mouthHeight, Rat[15, 1]], One],
         smiling |-> IF RGreater[smileRatio, Rat[18, 10]]
                     THEN RMin[RMul[RSub[smileRatio, Rat[18, 10]], Rat[2, 1]], One]
                     ELSE Zero,
         browRaiseNormalized |-> RMax[Zero, RMin[One, browRaise]]]

\* the alias lists of lines 612-664
LeftBlinkNames == <<"eyeBlinkLeft", "eyeBlink_L", "EyeBlinkLeft", "Eye_Blink_Left", "mouthClose">>
RightBlinkNames == <<"eyeBlinkRight", "eyeBlink_R", "EyeBlinkRight", "Eye_Blink_Right", "mouthClose">>
MouthOpenNames == <<"mouthOpen", "jawOpen", "MouthOpen", "Jaw_Open", "viseme_aa">>
SmileNames == <<"mouthSmile", "viseme_aa", "mouthSmileLeft", "MouthSmile", "Smile">>
BrowNames == <<"browInnerUp", "browUp", "BrowInnerUp", "Brow_Up">>

\* the index of the last name the dictionary has, or -1
RECURSIVE findMorphIndexLast(_, _)
findMorphIndexLast(mesh, names) ==
    IF names = <<>> THEN -1
    ELSE IF names[Len(names)] \in DOMAIN mesh.morphTargetDictionary
         THEN mesh.morphTargetDictionary[names[Len(names)]]
         ELSE findMorphIndexLast(mesh, SubSeq(names, 1, Len(names) - 1))

\* findMorphIndex: the index of the first name the dictionary has, or -1
RECURSIVE findMorphIndex(_, _)
findMorphIndex(mesh, names) ==
    IF names = <<>> THEN -1
    ELSE IF Head(names) \in DOMAIN mesh.morphTargetDictionary
         THEN mesh.morphTargetDictionary[Head(names)]
         ELSE findMorphIndex(mesh, Tail(names))

\* if (idx >= 0) influences[idx] = value
WriteInfluence(influences, idx, value) ==
    WithValue(<<influences, idx, value>>, LAMBDA w :
        IF w[2] >= 0
        THEN [i \in DOMAIN w[1] \cup {w[2]} |-> IF i = w[2] THEN w[3] ELSE w[1][i]]
        ELSE w[1])

\* the body of the morphMeshes.forEach callback, for the smoothed values of c
ApplyMorphTargets(c, mesh) ==
    LET i0 == mesh.morphTargetInfluences
        i1 == WriteInfluence(i0, findMorphIndex(mesh, LeftBlinkNames),
                             RSub[One, c.smoothedBlink.left])
        i2 == WriteInfluence(i1, findMorphIndex(mesh, RightBlinkNames),
                             RSub[One, c.smoothedBlink.right])
        i3 == WriteInfluence(i2, findMorphIndex(mesh, MouthOpenNames), c.smoothedMouth)
        i4 == WriteInfluence(i3, findMorphIndex(mesh, SmileNames),
                             RMul[c.smoothedSmile, Rat[5, 10]])
        i5 == WriteInfluence(i4, findMorphIndex(mesh, BrowNames),
                             RMul[c.smoothedBrowRaise, Rat[6, 10]])
    IN  [mesh EXCEPT !.morphTargetInfluences = i5]

\* lines 548-550
RotateHead(c, pose) ==
    [c EXCEPT !.headBone.rotation =
        [x |-> lerp(c.headBone.rotation.x, pose.pitch, Rat[2, 10]),
         y |-> lerp(c.headBone.rotation.y, pose.yaw, Rat[2, 10]),
         z |-> lerp(c.headBone.rotation.z, pose.roll, Rat[2, 10])]]

\* lines 601-605
Smooth(c, e) ==
    [c EXCEPT !.smoothedBlink = [left |-> lerp(c.smoothedBlink.left, e.leftEyeOpen, Rat[3, 10]),
                                 right |-> lerp(c.smoothedBlink.right, e.rightEyeOpen, Rat[3, 10])],
              !.smoothedMouth = lerp(c.smoothedMouth, e.mouthOpen, Rat[25, 100]),
              !.smoothedSmile = lerp(c.smoothedSmile, e.smiling, Rat[2, 10]),
              !.smoothedBrowRaise = lerp(c.smoothedBrowRaise, e.browRaiseNormalized, Rat[2, 10])]

\* lines 608-668
ApplyAllMorphTargets(c) ==
    [c EXCEPT !.morphMeshes = [k \in DOMAIN @ |-> ApplyMorphTargets(c, @[k])]]

\* an update that applies the expression whether or not the avatar has a head
\* bone, and leaves the head alone
updateFromFaceDataExpressionOnly(c, landmarks) ==
    IF landmarks.null THEN [controller |-> c, threw |-> FALSE]
    ELSE IF ~(ExpressionLandmarks \subseteq DOMAIN landmarks.points)
         THEN [controller |-> c, threw |-> TRUE]
    ELSE WithValue(Expression(landmarks.points), LAMBDA e :
         WithValue(Smooth(c, e), LAMBDA smoothed :
             [controller |-> ApplyAllMorphTargets(smoothed), threw |-> FALSE]))

\* updateFromFaceData(landmarks): the controller after the call, and whether the
\* call threw.  Reading x or y of a landmark the array lacks throws a TypeError:
\* before anything is written for the landmarks of the head pose, after the head
\* rotation is written for the others.
updateFromFaceData(c, landmarks) ==
    IF ~c.headBone.present \/ landmarks.null THEN [controller |-> c, threw |-> FALSE]
    ELSE IF ~(HeadLandmarks \subseteq DOMAIN landmarks.points)
         THEN [controller |-> c, threw |-> TRUE]
    ELSE WithValue(HeadPose(landmarks.points), LAMBDA pose :
         WithValue(RotateHead(c, pose), LAMBDA rotated :
             IF ~(ExpressionLandmarks \subseteq DOMAIN landmarks.points)
             THEN [controller |-> rotated, threw |-> TRUE]
             ELSE WithValue(Expression(landmarks.points), LAMBDA e :
                  WithValue(Smooth(rotated, e), LAMBDA smoothed :
                      [controller |-> ApplyAllMorphTargets(smoothed), threw |-> FALSE]))))

\* one call of updateFromFaceData
UpdateFromFaceData(landmarks) ==
    \E res \in {updateFromFaceData(avatarController, landmarks)} :
        /\ updates < MaxFaceUpdates
        /\ avatarController' = res.controller
        /\ landmarksIn' = landmarks
        /\ updateThrew' = res.threw
        /\ updates' = updates + 1
        /\ held' = IF landmarks = landmarksIn THEN held + 1 ELSE 1
        /\ UNCHANGED <<handVars, loopVars>>

UpdateFromFaceDataCall == \E landmarks \in FaceInputs : UpdateFromFaceData(landmarks)

-----------------------------------------------------------------------------
(* HandTracker.detectHands: the detector either throws or returns hands *)

\* lastResults after detectHands, given the incremented frame counter
HandsResult(r, count, threw, hands) ==
    IF count % handThrottleFrames # 0 THEN r
    ELSE IF threw THEN r
    ELSE Results(hands)

\* frameCount is read only modulo handThrottleFrames (line 366) and is kept so
NextFrameCount(count) == (count + 1) % handThrottleFrames

NextPhase == (phase % Len(motion)) + 1

\* one call of detectHands; when the detector is invoked it reports the next
\* frame of the motion or throws
DetectHands(threw) ==
    LET count == NextFrameCount(frameCount)
        invoked == count % handThrottleFrames = 0
    IN  /\ pending = {}
        /\ threw => invoked /\ throws < MaxThrows
        /\ frameCount' = count
        /\ lastResults' = HandsResult(lastResults, count, threw, motion[NextPhase])
        /\ phase' = IF invoked THEN NextPhase ELSE phase
        /\ throws' = IF threw THEN throws + 1 ELSE throws
        /\ pending' = IF invoked THEN {"detectWave", "detectThumbsUp"} ELSE {}
        /\ UNCHANGED <<now, motion, wristHistory, lastWaveTime, lastThumbsUpTime,
                       waveRet, thumbsRet, fired, faceVars, loopVars>>

DetectHandsCall == \E threw \in BOOLEAN : DetectHands(threw)

ClockAdvance ==
    \E d \in ClockSteps :
        /\ now + d <= MaxTime
        /\ now' = now + d
        /\ UNCHANGED <<motion, phase, pending, throws, lastResults, frameCount,
                       wristHistory, lastWaveTime, lastThumbsUpTime, waveRet, thumbsRet,
                       fired, faceVars, loopVars>>

-----------------------------------------------------------------------------
(* FaceTracker and the tracking loop of AvatarApp.startTracking *)

NoFaceResults == [null |-> TRUE, faceLandmarks |-> <<>>]
FaceResults(faces) == [null |-> FALSE, faceLandmarks |-> faces]

\* FaceTracker.hasFace and FaceTracker.getLandmarks
hasFace(r) == ~r.null /\ Len(r.faceLandmarks) > 0
getLandmarks(r) ==
    IF r.null \/ Len(r.faceLandmarks) = 0 THEN NoLandmarks ELSE Landmarks(r.faceLandmarks[1])

\* what FaceLandmarker.detectForVideo does on a frame: it throws, or returns no
\* face, a face with the head turned, or a face whose landmark array lacks
\* index 13
FaceDetections ==
    { [threw |-> TRUE, faceLandmarks |-> <<>>],
      [threw |-> FALSE, faceLandmarks |-> <<>>],
      [threw |-> FALSE, faceLandmarks |-> <<FaceTurned>>],
      [threw |-> FALSE, faceLandmarks |-> <<Without(FaceNeutral, 13)>>] }

\* FaceTracker.detectFace: lastResults when the detector does not throw
detectFace(r, detection) == IF detection.threw THEN r ELSE FaceResults(detection.faceLandmarks)

\* the entry e is in the log of the last run of trackLoop
Did(e) == \E i \in 1..Len(tickLog) : tickLog[i] = e

\* a face part that lets the expression relax towards a closed face on a tick
\* without a face
FacePartRelaxing(detection) ==
    LET results == detectFace(faceResults, detection)
        seen == ~detection.threw /\ hasFace(results)
    IN  WithValue(IF seen THEN updateFromFaceData(avatarController, getLandmarks(results))
                  ELSE updateFromFaceData(avatarController, Landmarks(FaceClosed)),
                  LAMBDA upd :
        [results |-> results, seen |-> seen, controller |-> upd.controller,
         escaped |-> detection.threw \/ upd.threw,
         log |-> <<"faceDetector">>
                 \o (IF detection.threw THEN <<"faceDetectorError">> ELSE <<>>)
                 \o (IF seen THEN <<"updateFromFaceData">> ELSE <<>>)
                 \o (IF upd.threw THEN <<"updateError">> ELSE <<>>)])

\* the part of a processed tick up to the avatar update (lines 1139-1161); the
\* tick ends there when the face detector or updateFromFaceData throws
FacePart(detection) ==
    LET results == detectFace(faceResults, detection)
        seen == ~detection.threw /\ hasFace(results)
    IN  WithValue(IF seen THEN updateFromFaceData(avatarController, getLandmarks(results))
                  ELSE [controller |-> avatarController, threw |-> FALSE], LAMBDA upd :
        [results |-> results, seen |-> seen, controller |-> upd.controller,
         escaped |-> detection.threw \/ upd.threw,
         log |-> <<"faceDetector">>
                 \o (IF detection.threw THEN <<"faceDetectorError">> ELSE <<>>)
                 \o (IF seen THEN <<"updateFromFaceData">> ELSE <<>>)
                 \o (IF upd.threw THEN <<"updateError">> ELSE <<>>)])

\* a hand part that updates the performance display before it detects
HandLogDisplayFirst(invoked, threw, waveFired, thumbsFired) ==
    <<"updateUI", "detectHands">>
    \o (IF invoked THEN <<"handDetector">> ELSE <<>>)
    \o (IF threw THEN <<"handDetectorError">> ELSE <<>>)
    \o (IF particlesEnabled
        THEN <<"detectWave">>
             \o (IF waveFired THEN <<"waveDetected", "confetti", "notifyWave">> ELSE <<>>)
             \o <<"detectThumbsUp">>
             \o (IF thumbsFired THEN <<"thumbsUpDetected", "sparkle", "notifyThumbsUp">>
                 ELSE <<>>)
        ELSE <<>>)
    \o <<"requestAnimationFrame">>

\* what lines 1164-1189 do, in their order
HandLog(invoked, threw, waveFired, thumbsFired) ==
    <<"detectHands">>
    \o (IF invoked THEN <<"handDetector">> ELSE <<>>)
    \o (IF threw THEN <<"handDetectorError">> ELSE <<>>)
    \o (IF particlesEnabled
        THEN <<"detectWave">>
             \o (IF waveFired THEN <<"waveDetected", "confetti", "notifyWave">> ELSE <<>>)
             \o <<"detectThumbsUp">>
             \o (IF thumbsFired THEN <<"thumbsUpDetected", "sparkle", "notifyThumbsUp">>
                 ELSE <<>>)
        ELSE <<>>)
    \o <<"updateUI", "requestAnimationFrame">>

\* the part of a processed tick from hand detection on (lines 1164-1185)
HandPart(threw) ==
    LET count == NextFrameCount(frameCount)
        invoked == count % handThrottleFrames = 0
        hands == HandsResult(lastResults, count, threw, motion[NextPhase])
        thumbs == ThumbsResult(hands, lastThumbsUpTime, now)
    IN  WithValue(WaveResult(hands, wristHistory, lastWaveTime, now), LAMBDA wave :
        [count |-> count, invoked |-> invoked, hands |-> hands, wave |-> wave,
         thumbs |-> thumbs,
         log |-> HandLog(invoked, threw, wave.ret, thumbs.ret)])

\* a tick on a new video frame
ProcessFrame(detection, threw) ==
    \E f \in {FacePart(detection)}, h \in {HandPart(threw)} :
        /\ threw => ~f.escaped /\ h.invoked /\ throws < MaxThrows
        /\ lastVideoTime' = videoTime
        /\ processedTicks' = (processedTicks + 1) % 2
        /\ faceResults' = f.results
        /\ avatarController' = f.controller
        /\ IF f.seen
           THEN /\ landmarksIn' = getLandmarks(f.results)
                /\ updateThrew' = (f.escaped /\ ~detection.threw)
                /\ updates' = updates + 1
                /\ held' = IF getLandmarks(f.results) = landmarksIn THEN held + 1 ELSE 1
           ELSE UNCHANGED <<landmarksIn, updateThrew, updates, held>>
        /\ IF f.escaped
           THEN /\ loopScheduled' = FALSE
                /\ tickLog' = f.log
                /\ UNCHANGED <<phase, throws, lastResults, frameCount, wristHistory,
                               lastWaveTime, lastThumbsUpTime, waveRet, thumbsRet, fired>>
           ELSE /\ loopScheduled' = TRUE
                /\ tickLog' = f.log \o h.log
                /\ frameCount' = h.count
                /\ lastResults' = h.hands
                /\ phase' = IF h.invoked THEN NextPhase ELSE phase
                /\ throws' = IF threw THEN throws + 1 ELSE throws
                /\ IF particlesEnabled
                   THEN /\ wristHistory' = h.wave.history
                        /\ lastWaveTime' = h.wave.lastWaveTime
                        /\ waveRet' = h.wave.ret
                        /\ lastThumbsUpTime' = h.thumbs.lastThumbsUpTime
                        /\ thumbsRet' = h.thumbs.ret
                        /\ fired' = [wave |-> IF h.wave.ret THEN Append(fired.wave, now)
                                              ELSE fired.wave,
                                     thumbs |-> IF h.thumbs.ret THEN Append(fired.thumbs, now)
                                                ELSE fired.thumbs]
                   ELSE UNCHANGED <<wristHistory, lastWaveTime, waveRet, lastThumbsUpTime,
                                    thumbsRet, fired>>
        /\ UNCHANGED <<now, motion, pending, particlesEnabled, particlesActive, videoTime,
                       loadVars>>

\* a loop that processes every tick, whether the video moved on or not
TrackLoopEveryTick ==
    /\ loopScheduled
    /\ \E detection \in FaceDetections, threw \in BOOLEAN : ProcessFrame(detection, threw)

\* one run of trackLoop
TrackLoop ==
    /\ loopScheduled
    /\ IF videoTime = lastVideoTime
       THEN /\ tickLog' = <<"requestAnimationFrame">>
            /\ UNCHANGED <<handVars, faceVars, faceResults, loopScheduled, particlesEnabled,
                           particlesActive, videoTime, lastVideoTime, processedTicks, loadVars>>
       ELSE \E detection \in FaceDetections, threw \in BOOLEAN :
                ProcessFrame(detection, threw)

\* the video element shows its next frame
VideoFrame ==
    /\ videoTime < MaxVideoFrames
    /\ videoTime' = videoTime + 1
    /\ UNCHANGED <<handVars, faceVars, faceResults, loopScheduled, particlesEnabled,
                   particlesActive, lastVideoTime, tickLog, processedTicks, loadVars>>

\* the click handler of the particles toggle
ToggleParticles ==
    /\ particlesActive' = ~particlesActive
    /\ particlesEnabled' = particlesActive'
    /\ UNCHANGED <<handVars, faceVars, faceResults, loopScheduled, videoTime,
                   lastVideoTime, tickLog, processedTicks, loadVars>>

-----------------------------------------------------------------------------
(* AvatarApp.loadAvatar and tryLoadAvatar.  A request of loader.load ends in *)
(* its success or its error callback at any time; the 10 second timer of an  *)
(* attempt fires at any time before a callback has cleared it.               *)

\* avatarUrls.length
AvatarUrlCount == 3
AvatarUrls == 1..AvatarUrlCount

\* what the traversal of lines 1050-1064 finds in the model of each URL
AvatarModels ==
    << [headBone |-> HeadBone, morphMeshes |-> <<MeshARKit>>],
       [headBone |-> HeadBone, morphMeshes |-> <<MeshVisemes, MeshTeeth>>],
       [headBone |-> NoHeadBone, morphMeshes |-> <<MeshARKit>>] >>

\* this.avatarController = null
NoController == [null |-> TRUE]

\* a timer after clearTimeout: one that already fired stays fired
ClearTimeout(timer) == IF timer = "armed" THEN "cleared" ELSE timer

\* loadAvatar after the promise of attempt i settled with the outcome settled
\* while loadAvatar awaited it: it returns, or it throws after the last URL, or
\* it calls tryLoadAvatar on the next URL.  l, t and p are the requests, timers
\* and promises as the callback left them.
Continue(i, settled, l, t, p) ==
    IF settled = "resolved"
    THEN /\ loadOutcome' = "returned"
         /\ attempt' = attempt /\ loads' = l /\ timers' = t /\ promises' = p
    ELSE IF i = AvatarUrlCount
    THEN /\ loadOutcome' = "thrown"
         /\ attempt' = attempt /\ loads' = l /\ timers' = t /\ promises' = p
    ELSE /\ loadOutcome' = loadOutcome
         /\ attempt' = i + 1
         /\ loads' = [l EXCEPT ![i + 1] = "pending"]
         /\ timers' = [t EXCEPT ![i + 1] = "armed"]
         /\ promises' = [p EXCEPT ![i + 1] = "pending"]

\* resolve or reject on the promise of attempt i: the first call settles it
\* and lets loadAvatar go on, a later call does nothing
Settle(i, settled, l, t) ==
    IF promises[i] = "pending"
    THEN Continue(i, settled, l, t, [promises EXCEPT ![i] = settled])
    ELSE /\ loads' = l /\ timers' = t
         /\ UNCHANGED <<loadOutcome, attempt, promises>>

\* initialize() calls loadAvatar, which calls tryLoadAvatar on the first URL
LoadAvatar ==
    /\ loadOutcome = "notCalled"
    /\ loadOutcome' = "loading"
    /\ attempt' = 1
    /\ loads' = [loads EXCEPT ![1] = "pending"]
    /\ timers' = [timers EXCEPT ![1] = "armed"]
    /\ promises' = [promises EXCEPT ![1] = "pending"]
    /\ UNCHANGED <<scene, avatar, handVars, faceVars, faceResults, loopScheduled,
                   particlesEnabled, particlesActive, videoTime, lastVideoTime, tickLog,
                   processedTicks>>

\* the success callback of the request for URL i (lines 1040-1070)
LoadSuccess(i) ==
    /\ loads[i] = "pending"
    /\ avatar' = i
    /\ scene' = Append(scene, i)
    /\ avatarController' =
           NewAvatarController(AvatarModels[i].headBone, AvatarModels[i].morphMeshes)
    /\ Settle(i, "resolved", [loads EXCEPT ![i] = "loaded"],
              [timers EXCEPT ![i] = ClearTimeout(@)])
    /\ UNCHANGED <<landmarksIn, updateThrew, updates, held, handVars, faceResults,
                   loopScheduled, particlesEnabled, particlesActive, videoTime,
                   lastVideoTime, tickLog, processedTicks>>

\* the error callback of the request for URL i (lines 1079-1082)
LoadError(i) ==
    /\ loads[i] = "pending"
    /\ Settle(i, "rejected", [loads EXCEPT ![i] = "failed"],
              [timers EXCEPT ![i] = ClearTimeout(@)])
    /\ UNCHANGED <<scene, avatar, handVars, faceVars, faceResults, loopScheduled,
                   particlesEnabled, particlesActive, videoTime, lastVideoTime, tickLog,
                   processedTicks>>

\* the timer of attempt i fires (lines 1034-1036); the request goes on
Timeout(i) ==
    /\ timers[i] = "armed"
    /\ Settle(i, "rejected", loads, [timers EXCEPT ![i] = "fired"])
    /\ UNCHANGED <<scene, avatar, handVars, faceVars, faceResults, loopScheduled,
                   particlesEnabled, particlesActive, videoTime, lastVideoTime, tickLog,
                   processedTicks>>

\* the fields of AvatarApp that loading writes, after the constructor
LoadNew ==
    /\ loadOutcome = "notCalled"
    /\ attempt = 0
    /\ loads = [i \in AvatarUrls |-> "idle"]
    /\ timers = [i \in AvatarUrls |-> "idle"]
    /\ promises = [i \in AvatarUrls |-> "idle"]
    /\ scene = <<>>
    /\ avatar = 0

\* the same fields once loadAvatar has returned with the model of the first URL
AvatarLoaded ==
    /\ loadOutcome = "returned"
    /\ attempt = 1
    /\ loads = [i \in AvatarUrls |-> IF i = 1 THEN "loaded" ELSE "idle"]
    /\ timers = [i \in AvatarUrls |-> IF i = 1 THEN "cleared" ELSE "idle"]
    /\ promises = [i \in AvatarUrls |-> IF i = 1 THEN "resolved" ELSE "idle"]
    /\ scene = <<1>>
    /\ avatar = 1

-----------------------------------------------------------------------------
(* Initial states and specifications *)

\* a HandTracker after initialize(), before any other call
HandTrackerNew ==
    /\ now = StartTime
    /\ phase = 0
    /\ pending = {}
    /\ throws = 0
    /\ lastResults = NoResults
    /\ frameCount = 0
    /\ wristHistory = <<>>
    /\ lastWaveTime = 0
    /\ lastThumbsUpTime = 0
    /\ waveRet = FALSE
    /\ thumbsRet = FALSE
    /\ fired = [wave |-> <<>>, thumbs |-> <<>>]

\* no updateFromFaceData call yet
ControllerNew ==
    /\ landmarksIn = NoLandmarks
    /\ updateThrew = FALSE
    /\ updates = 0
    /\ held = 0

\* new AvatarApp() and new FaceTracker(), with the webcam's first frame showing
AppNew ==
    /\ faceResults = NoFaceResults
    /\ particlesEnabled = TRUE
    /\ videoTime = 0
    /\ lastVideoTime = -1
    /\ tickLog = <<>>
    /\ processedTicks = 0

\* the HandTracker on its own, called detection after detection
InitHands ==
    /\ HandTrackerNew
    /\ motion \in Motions
    /\ avatarController = NewAvatarController(HeadBone, <<MeshARKit>>)
    /\ ControllerNew
    /\ AppNew
    /\ AvatarLoaded
    /\ particlesActive = TRUE
    /\ loopScheduled = FALSE

NextGesture ==
    \/ DetectHandsCall
    \/ DetectWave
    \/ DetectThumbsUp
    \/ ClockAdvance

SpecGesture == InitHands /\ [][NextGesture]_vars

\* the AvatarController on its own, for every avatar loadAvatar can build
InitFace ==
    /\ HandTrackerNew
    /\ motion = <<<<>>>>
    /\ avatarController \in Avatars
    /\ ControllerNew
    /\ AppNew
    /\ AvatarLoaded
    /\ particlesActive = TRUE
    /\ loopScheduled = FALSE

NextFace == UpdateFromFaceDataCall

SpecFace == InitFace /\ [][NextFace]_vars

\* the first updateFromFaceData call of a new controller, over a sweep of lid
\* openings from closed to wide open
EyeSweep == { Landmarks(LidFace(l, r)) : l \in 0..MaxLidSum, r \in 0..MaxLidSum }

FirstUpdate == \E landmarks \in EyeSweep : updates = 0 /\ UpdateFromFaceData(landmarks)

InitEye ==
    /\ HandTrackerNew
    /\ motion = <<<<>>>>
    /\ avatarController = NewAvatarController(HeadBone, <<MeshARKit>>)
    /\ ControllerNew
    /\ AppNew
    /\ AvatarLoaded
    /\ particlesActive = TRUE
    /\ loopScheduled = FALSE

NextEye == FirstUpdate

SpecEye == InitEye /\ [][NextEye]_vars

\* morph target names a model may carry, in the order of their indices: first,
\* middle and last aliases of the channels, and a name of no channel
MorphPool ==
    <<"eyeBlinkLeft", "eyeBlink_L", "mouthClose", "jawOpen", "viseme_aa", "mouthSmile",
      "browUp", "teethOpen">>

\* the mesh whose morph targets are the names of the pool at the positions in
\* present, indexed from 0 in pool order
PoolMesh(present) ==
    Mesh([name \in {MorphPool[i] : i \in present} |->
             Cardinality({j \in present : \E i \in present : MorphPool[i] = name /\ j < i})])

\* one updateFromFaceData call on an avatar with one mesh of any morph targets
ExpressiveUpdate == updates = 0 /\ UpdateFromFaceData(Landmarks(FaceExpressive))

InitMorph ==
    /\ HandTrackerNew
    /\ motion = <<<<>>>>
    /\ \E present \in SUBSET (1..Len(MorphPool)) :
           avatarController = NewAvatarController(HeadBone, <<PoolMesh(present)>>)
    /\ ControllerNew
    /\ AppNew
    /\ AvatarLoaded
    /\ particlesActive = TRUE
    /\ loopScheduled = FALSE

NextMorph == ExpressiveUpdate

SpecMorph == InitMorph /\ [][NextMorph]_vars

\* what the hand detector reports while the tracking loop runs
LoopMotions == { <<<<HandLeft>>, <<HandRight>>>>, <<<<HandRight>>, <<>>>> }

\* a hand waving in front of the camera: the detector's successive results
\* alternate between two wrist positions 0.2 or 0.15 apart at one height
WaveMotions ==
    { <<<<HandLeft>>, <<HandRight>>>>, <<<<HandRight>>, <<HandLeft>>>>,
      <<<<OpenHand(30, 50)>>, <<OpenHand(45, 50)>>>> }

\* a run of trackLoop on a new video frame that shows a waving hand and no face;
\* the hand detector does not throw
WaveTick ==
    /\ loopScheduled
    /\ videoTime # lastVideoTime
    /\ ProcessFrame([threw |-> FALSE, faceLandmarks |-> <<>>], FALSE)

\* the video shows its next frame once the loop has seen the current one; the
\* frame times are kept modulo MaxVideoFrames + 1, the loop compares them only
\* for equality with the previous one
NextVideoFrame ==
    /\ videoTime = lastVideoTime
    /\ videoTime' = (videoTime + 1) % (MaxVideoFrames + 1)
    /\ UNCHANGED <<handVars, faceVars, faceResults, loopScheduled, particlesEnabled,
                   particlesActive, lastVideoTime, tickLog, processedTicks, loadVars>>

\* the tracking loop in front of a waving hand, gesture effects enabled
InitWave ==
    /\ HandTrackerNew
    /\ motion \in WaveMotions
    /\ avatarController = NewAvatarController(HeadBone, <<MeshARKit>>)
    /\ ControllerNew
    /\ AppNew
    /\ AvatarLoaded
    /\ particlesActive = TRUE
    /\ loopScheduled = TRUE

NextWave ==
    \/ WaveTick
    \/ NextVideoFrame
    \/ ClockAdvance

\* requestAnimationFrame runs a scheduled trackLoop and the video keeps playing
SpecWave == InitWave /\ [][NextWave]_vars /\ WF_vars(WaveTick) /\ WF_vars(NextVideoFrame)

\* the application while initialize() loads the avatar
InitLoad ==
    /\ HandTrackerNew
    /\ motion = <<<<>>>>
    /\ avatarController = NoController
    /\ ControllerNew
    /\ AppNew
    /\ LoadNew
    /\ particlesActive = TRUE
    /\ loopScheduled = FALSE

NextLoad ==
    \/ LoadAvatar
    \/ \E i \in AvatarUrls : LoadSuccess(i)
    \/ \E i \in AvatarUrls : LoadError(i)
    \/ \E i \in AvatarUrls : Timeout(i)

SpecLoad == InitLoad /\ [][NextLoad]_vars

\* the application once initialize() has called startTracking()
Init ==
    /\ HandTrackerNew
    /\ motion \in LoopMotions
    /\ avatarController = NewAvatarController(HeadBone, <<MeshARKit>>)
    /\ ControllerNew
    /\ AppNew
    /\ AvatarLoaded
    /\ particlesActive \in BOOLEAN
    /\ loopScheduled = TRUE

Next ==
    \/ TrackLoop
    \/ VideoFrame
    \/ ToggleParticles
    \/ ClockAdvance

Spec == Init /\ [][Next]_vars

-----------------------------------------------------------------------------
(* Properties of the gesture recogniser, checked under SpecGesture *)

\* this step is a call of detectWave / detectThumbsUp
WaveCalled == "detectWave" \in pending /\ "detectWave" \notin pending'
ThumbsCalled == "detectThumbsUp" \in pending /\ "detectThumbsUp" \notin pending'

Last(q) == q[Len(q)]
\* no earlier firing of the kind lies less than 2000 ms back
OutsideCooldown(times) == times = <<>> \/ now - Last(times) >= 2000

\* the sample a detectWave call reads: the wrist of the primary hand
PrimaryWrist == [x |-> lastResults.landmarks[1].wrist.x,
                 y |-> lastResults.landmarks[1].wrist.y]

SpacedApart(times) ==
    \A i, j \in 1..Len(times) : i < j => times[j] - times[i] >= 2000

\* C1: two calls that return true for the same gesture kind, wave or thumbs-up,
\* are never less than gestureThrottle = 2000 ms apart.
C1_FiringsSpacedApart == SpacedApart(fired.wave) /\ SpacedApart(fired.thumbs)

\* both kinds have fired twice in one run
C1_Witness == Len(fired.wave) >= 2 /\ Len(fired.thumbs) >= 2

\* x alternates between 0.3 and 0.5 on every sample and y is constant
Alternating(h) ==
    /\ \A i \in 1..Len(h) : h[i].y = h[1].y /\ h[i].x \in {30, 50}
    /\ \A i \in 2..Len(h) : h[i].x # h[i - 1].x

\* C2: fed alternating samples from an empty history outside the cooldown,
\* detectWave returns true on the 12th sample and on no earlier one, and no call
\* made less than 2000 ms after a firing returns true.
C2_AlternatingWaveStep ==
    WaveCalled =>
        /\ (HasHands(lastResults) /\ OutsideCooldown(fired.wave)
             /\ Alternating(Append(wristHistory, PrimaryWrist)))
            => (waveRet' <=> Len(wristHistory) = 11)
        /\ ~OutsideCooldown(fired.wave) => ~waveRet'
C2_AlternatingWaveFiresOnce == [][C2_AlternatingWaveStep]_vars

\* the alternating wave fired on its 12th sample and the next calls, inside the
\* cooldown, were refused
C2_Witness ==
    /\ motion = <<<<HandLeft>>, <<HandRight>>>>
    /\ throws = 0
    /\ Len(fired.wave) = 1
    /\ now - fired.wave[1] < 2000
    /\ ~waveRet
    /\ pending = {}

\* the count of the claim: a step counts when its direction is non-zero and
\* differs from the most recent earlier non-zero direction
RECURSIVE ReversalCount(_, _, _)
ReversalCount(h, i, lastNonZero) ==
    IF i > Len(h) THEN 0
    ELSE LET direction == Direction(h[i].x - h[i - 1].x)
         IN  IF direction = 0 THEN ReversalCount(h, i + 1, lastNonZero)
             ELSE (IF lastNonZero # 0 /\ direction # lastNonZero THEN 1 ELSE 0)
                  + ReversalCount(h, i + 1, direction)

\* C3: the direction-change count detectWave computes over the history is the
\* number of steps whose non-zero direction differs from the last non-zero one;
\* steps with dx = 0 neither count nor erase the remembered direction.
C3_DirectionChangesAreReversals ==
    Len(wristHistory) >= minWaveSamples =>
        WaveStats(wristHistory).directionChanges = ReversalCount(wristHistory, 2, 0)

\* the history after the push of a detectWave call that gets as far as pushing
Pushed ==
    LET p == Append(wristHistory, PrimaryWrist)
    IN  IF Len(p) > 15 THEN SubSeq(p, Len(p) - 14, Len(p)) ELSE p

HorizontalRange(h) ==
    LET xs == {h[i].x : i \in 1..Len(h)}
    IN  (CHOOSE m \in xs : \A v \in xs : v <= m) - (CHOOSE m \in xs : \A v \in xs : m <= v)

LargestVerticalStep(h) ==
    LET ds == {Abs(h[i].y - h[i - 1].y) : i \in 2..Len(h)}
    IN  CHOOSE m \in ds : \A v \in ds : v <= m

\* C4: detectWave returns true only when the history with the current sample
\* holds at least 12 samples, its direction-change count (as the code counts,
\* and so also the number of reversals) is at least 2, its horizontal range
\* exceeds 0.12 and its largest vertical step is below 0.12;
\* right after a true return the history is empty and lastWaveTime is the time
\* of the call.
C4_WaveFiresStep ==
    (WaveCalled /\ waveRet') =>
        /\ HasHands(lastResults)
        /\ Len(Pushed) >= 12
        /\ WaveStats(Pushed).directionChanges >= 2
        /\ ReversalCount(Pushed, 2, 0) >= 2
        /\ HorizontalRange(Pushed) > 12
        /\ LargestVerticalStep(Pushed) < 12
        /\ wristHistory' = <<>>
        /\ lastWaveTime' = now
C4_WaveFiresOnlyOnWave == [][C4_WaveFiresStep]_vars

C4_Witness == waveRet /\ fired.wave # <<>> /\ wristHistory = <<>> /\ lastWaveTime = now

\* C5: the history never holds more than maxHistoryLength = 15 samples; a call
\* without a hand or inside the cooldown leaves it alone, any other call empties
\* it on a firing or else appends the current sample, and appending to a full
\* history drops the oldest sample, so the history is the most recent samples in
\* arrival order.
C5_HistoryStep ==
    /\ Len(wristHistory') <= 15
    /\ WaveCalled =>
           IF ~HasHands(lastResults) \/ now - lastWaveTime < 2000
           THEN wristHistory' = wristHistory
           ELSE \/ wristHistory' = <<>> /\ waveRet'
                \/ /\ ~waveRet'
                   /\ wristHistory' = IF Len(wristHistory) = 15
                                      THEN Append(Tail(wristHistory), PrimaryWrist)
                                      ELSE Append(wristHistory, PrimaryWrist)
    /\ ~WaveCalled => wristHistory' = wristHistory
C5_HistoryBoundedFifo == [][C5_HistoryStep]_vars

\* a full history whose oldest sample is no longer the first one of the sweep
C5_Witness ==
    /\ motion = SlowSweep
    /\ Len(wristHistory) = 15
    /\ wristHistory[1].x # 31
    /\ wristHistory[15].x = wristHistory[14].x - 1

\* the test of the claim, with the boundary included or excluded
ClaimedThumbsUp(hand, inclusive) ==
    LET curled(tip) == IF inclusive THEN tip >= hand.wrist.y - 10
                       ELSE tip > hand.wrist.y - 10
    IN  /\ hand.thumbTip < hand.wrist.y
        /\ hand.thumbTip < hand.thumbIp
        /\ curled(hand.indexTip) /\ curled(hand.middleTip)
        /\ curled(hand.ringTip) /\ curled(hand.pinkyTip)

ThumbsStep(inclusive) ==
    (ThumbsCalled /\ OutsideCooldown(fired.thumbs)) =>
        (thumbsRet' <=>
            /\ HasHands(lastResults)
            /\ \E i \in 1..Len(lastResults.landmarks) :
                   ClaimedThumbsUp(lastResults.landmarks[i], inclusive))

\* C7 as stated: outside the cooldown detectThumbsUp returns true exactly when
\* some detected hand has its thumb tip above the wrist and above the thumb IP
\* joint and each of the four fingertips at y >= wrist.y - 0.1, boundary included.
C7_ThumbsUpBoundaryIncluded == [][ThumbsStep(TRUE)]_vars

\* C7 amended: the same with each fingertip at y > wrist.y - 0.1, boundary
\* excluded.
C7_ThumbsUpBoundaryExcluded == [][ThumbsStep(FALSE)]_vars

\* outside the cooldown, the hand with its index fingertip exactly 0.1 above the
\* wrist was refused, after the thumbs-up hand of the claim had fired
C7_Witness ==
    /\ motion = ThumbPoses
    /\ phase = 5
    /\ pending = {"detectWave"}
    /\ Len(fired.thumbs) = 1
    /\ now - fired.thumbs[1] >= 2000
    /\ ~thumbsRet

-----------------------------------------------------------------------------
(* Properties of the tracking loop, checked under Spec *)

\* this step is a run of trackLoop on a new video frame
ProcessedTick == lastVideoTime' # lastVideoTime

\* in this tick the hand detector was invoked and threw, or returned no hand
HandDetectorFailed ==
    /\ ProcessedTick
    /\ Did("handDetector")'
    /\ Did("handDetectorError")' \/ ~HasHands(lastResults')

\* C6: on a tick where the hand detector throws or returns an empty hand list,
\* neither detectWave nor detectThumbsUp detects, no exception escapes the tick
\* and the wrist history is what it was before the tick.
C6_HandFailureStep ==
    HandDetectorFailed =>
        /\ ~Did("waveDetected")'
        /\ ~Did("thumbsUpDetected")'
        /\ loopScheduled'
        /\ wristHistory' = wristHistory
C6_HandFailureDetectsNothing == [][C6_HandFailureStep]_vars

\* C8: a tick in which the face detector throws is a tick without a face: the
\* error stays inside the tick, hand detection still runs in it and the loop
\* schedules its next tick.
C8_FaceErrorStep ==
    (ProcessedTick /\ Did("faceDetectorError")') =>
        /\ ~Did("updateFromFaceData")'
        /\ Did("detectHands")'
        /\ Did("requestAnimationFrame")'
        /\ loopScheduled'
C8_FaceErrorKeepsLoopRunning == [][C8_FaceErrorStep]_vars

\* C9: when the landmark array of a tick lacks index 13, which only the mouth
\* signal needs, updateFromFaceData does not throw, the mouth value stays, the
\* eye and brow values are smoothed towards what the other landmarks give, and
\* the loop schedules its next tick.
C9_MissingMouthStep ==
    (/\ ProcessedTick
     /\ Did("updateFromFaceData")'
     /\ landmarksIn'.points = Without(FaceNeutral, 13)) =>
        LET e == Expression(FaceNeutral)
            c == avatarController
        IN  /\ ~updateThrew'
            /\ loopScheduled'
            /\ avatarController'.smoothedMouth = c.smoothedMouth
            /\ avatarController'.smoothedBlink.left
                   = lerp(c.smoothedBlink.left, e.leftEyeOpen, Rat[3, 10])
            /\ avatarController'.smoothedBlink.right
                   = lerp(c.smoothedBlink.right, e.rightEyeOpen, Rat[3, 10])
            /\ avatarController'.smoothedBrowRaise
                   = lerp(c.smoothedBrowRaise, e.browRaiseNormalized, Rat[2, 10])
C9_MissingLandmarkSkipsOneSignal == [][C9_MissingMouthStep]_vars

-----------------------------------------------------------------------------
(* Properties of the AvatarController, checked under SpecFace *)

\* from old to new the value did not move away from raw and did not pass it
Toward(old, new, raw) ==
    /\ ~RLess[RAbs[RSub[old, raw]], RAbs[RSub[new, raw]]]
    /\ ~(RLess[old, raw] /\ RLess[raw, new])
    /\ ~(RLess[raw, old] /\ RLess[new, raw])

\* the head channels of a call that got as far as writing them
HeadToward ==
    LET pose == HeadPose(landmarksIn'.points)
        old == avatarController.headBone.rotation
        new == avatarController'.headBone.rotation
    IN  /\ Toward(old.x, new.x, pose.pitch)
        /\ Toward(old.y, new.y, pose.yaw)
        /\ Toward(old.z, new.z, pose.roll)

\* the expression channels of a call that ran to its end
ExpressionToward ==
    LET e == Expression(landmarksIn'.points)
        old == avatarController
        new == avatarController'
    IN  /\ Toward(old.smoothedBlink.left, new.smoothedBlink.left, e.leftEyeOpen)
        /\ Toward(old.smoothedBlink.right, new.smoothedBlink.right, e.rightEyeOpen)
        /\ Toward(old.smoothedMouth, new.smoothedMouth, e.mouthOpen)
        /\ Toward(old.smoothedSmile, new.smoothedSmile, e.smiling)
        /\ Toward(old.smoothedBrowRaise, new.smoothedBrowRaise, e.browRaiseNormalized)

\* C10: in every updateFromFaceData call, whatever the values before it, each
\* smoothed channel ends no farther from the raw value of the call than it was
\* and not on the other side of it; so with the raw value held over successive
\* calls the distance never increases and the raw value is never crossed.
C10_SmoothingStep ==
    (/\ updates' = updates + 1
     /\ avatarController.headBone.present
     /\ ~landmarksIn'.null
     /\ HeadLandmarks \subseteq DOMAIN landmarksIn'.points) =>
        /\ HeadToward
        /\ ~updateThrew' => ExpressionToward
C10_SmoothingApproachesRaw == [][C10_SmoothingStep]_vars

\* three calls in a row with the expressive face: the mouth value is strictly
\* between its start 0 and the raw 0.735, the left eye between the raw 0.6 and
\* its start 1
C10_Witness ==
    /\ held = 3
    /\ landmarksIn = Landmarks(FaceExpressive)
    /\ avatarController.headBone.present
    /\ RLess[Zero, avatarController.smoothedMouth]
    /\ RLess[avatarController.smoothedMouth, Rat[735, 1000]]
    /\ RLess[Rat[6, 10], avatarController.smoothedBlink.left]
    /\ RLess[avatarController.smoothedBlink.left, One]

-----------------------------------------------------------------------------
(* Properties of the eye openness, checked under SpecEye *)

\* the aspect ratio of an eye from its six landmarks, in integers
AspectRatio(lm, top, bottom, left, right, top2, bottom2) ==
    Rat[Abs(lm[top].y - lm[bottom].y) + Abs(lm[top2].y - lm[bottom2].y),
        2 * Abs(lm[left].x - lm[right].x)]

\* the raw value r a smoothing step from old to new with factor t was given:
\* new = old + (r - old) * t
RawBehind(old, new, t) == RAdd[old, RDiv[RSub[new, old], t]]

\* what the claim says of the openness r computed from the aspect ratio e
ThresholdedOpenness(e, r) ==
    /\ RLess[e, Rat[15, 100]] => r = Zero
    /\ RGreater[e, Rat[20, 100]] => r = One
    /\ e = Rat[15, 100] => r = Zero
    /\ e = Rat[20, 100] => r = One
    /\ ~RLess[r, Zero] /\ ~RGreater[r, One]

\* C11: the raw eye openness updateFromFaceData computes is 0 for every aspect
\* ratio below 0.15, 1 for every one above 0.2, 0 at 0.15 and 1 at 0.2, between
\* 0 and 1 in between, and never smaller for the eye with the larger ratio.
C11_EyeOpennessStep ==
    (updates = 0 /\ updates' = 1) =>
        LET lm == landmarksIn'.points
            leftEAR == AspectRatio(lm, 159, 145, 33, 133, 158, 153)
            rightEAR == AspectRatio(lm, 386, 374, 362, 263, 385, 380)
            leftOpen == RawBehind(avatarController.smoothedBlink.left,
                                  avatarController'.smoothedBlink.left, Rat[3, 10])
            rightOpen == RawBehind(avatarController.smoothedBlink.right,
                                   avatarController'.smoothedBlink.right, Rat[3, 10])
        IN  /\ ThresholdedOpenness(leftEAR, leftOpen)
            /\ ThresholdedOpenness(rightEAR, rightOpen)
            /\ ~RGreater[leftEAR, rightEAR] => ~RGreater[leftOpen, rightOpen]
-----------------------------------------------------------------------------
(* Properties of the avatar in the tracking loop, checked under Spec *)

\* C12: a processed tick whose face detection finds no face leaves the smoothed
\* values, the head rotation and every influence of every mesh as they were.
C12_NoFaceStep ==
    (ProcessedTick /\ ~hasFace(faceResults')) =>
        /\ avatarController'.smoothedBlink = avatarController.smoothedBlink
        /\ avatarController'.smoothedMouth = avatarController.smoothedMouth
        /\ avatarController'.smoothedSmile = avatarController.smoothedSmile
        /\ avatarController'.smoothedBrowRaise = avatarController.smoothedBrowRaise
        /\ avatarController'.headBone.rotation = avatarController.headBone.rotation
        /\ \A k \in DOMAIN avatarController.morphMeshes :
               avatarController'.morphMeshes[k].morphTargetInfluences
                   = avatarController.morphMeshes[k].morphTargetInfluences
C12_NoFaceHoldsLastValue == [][C12_NoFaceStep]_vars

\* a tick without a face ran to its end after an earlier tick had moved the
\* avatar away from its rest pose
C12_Witness ==
    /\ ~hasFace(faceResults)
    /\ Did("updateUI")
    /\ updates >= 1
    /\ avatarController.smoothedMouth # Zero
    /\ avatarController.headBone.rotation.x # Zero

-----------------------------------------------------------------------------
(* Properties of the morph target lookup, checked under SpecMorph *)

\* the index the dictionary gives the first of the names it has, or -1
FirstAlias(dictionary, names) ==
    LET found == {i \in 1..Len(names) : names[i] \in DOMAIN dictionary}
    IN  IF found = {} THEN -1
        ELSE dictionary[names[CHOOSE i \in found : \A j \in found : i <= j]]

\* the channels in the order updateFromFaceData writes them, with the values
\* it writes for the controller c
Channels(c) ==
    << [names |-> LeftBlinkNames, value |-> RSub[One, c.smoothedBlink.left]],
       [names |-> RightBlinkNames, value |-> RSub[One, c.smoothedBlink.right]],
       [names |-> MouthOpenNames, value |-> c.smoothedMouth],
       [names |-> SmileNames, value |-> RMul[c.smoothedSmile, Rat[5, 10]]],
       [names |-> BrowNames, value |-> RMul[c.smoothedBrowRaise, Rat[6, 10]]] >>

\* C13: findMorphIndex gives the index of the first alias of a channel the
\* mesh has and -1 when it has none; after an update every influence holds the
\* value of the last channel that resolved to its index, an influence no
\* channel resolved to is as it was, no influence is added, and the call does
\* not throw.
C13_FirstAliasStep ==
    (updates = 0 /\ updates' = 1) =>
        LET old == avatarController.morphMeshes[1]
            new == avatarController'.morphMeshes[1]
            dictionary == old.morphTargetDictionary
            channels == Channels(avatarController')
            writers(j) == {k \in 1..Len(channels) : FirstAlias(dictionary, channels[k].names) = j}
        IN  /\ ~updateThrew'
            /\ \A k \in 1..Len(channels) :
                   findMorphIndex(old, channels[k].names)
                       = FirstAlias(dictionary, channels[k].names)
            /\ DOMAIN new.morphTargetInfluences = DOMAIN old.morphTargetInfluences
            /\ \A j \in DOMAIN old.morphTargetInfluences :
                   new.morphTargetInfluences[j] =
                       IF writers(j) = {} THEN old.morphTargetInfluences[j]
                       ELSE channels[CHOOSE k \in writers(j) :
                                         \A m \in writers(j) : m <= k].value
C13_FirstAliasWritten == [][C13_FirstAliasStep]_vars

\* a mesh with a middle and a last alias of the left blink, the last alias of
\* the right blink, no brow target and a target of no channel: the left blink
\* went to the middle alias, the untouched target stayed at 0
C13_Witness ==
    /\ updates = 1
    /\ avatarController.morphMeshes[1].morphTargetDictionary
           = [name \in {"eyeBlink_L", "mouthClose", "teethOpen"} |->
                 CASE name = "eyeBlink_L" -> 0 [] name = "mouthClose" -> 1
                   [] name = "teethOpen" -> 2]
    /\ avatarController.morphMeshes[1].morphTargetInfluences[0] = Rat[12, 100]
    /\ avatarController.morphMeshes[1].morphTargetInfluences[1] = Rat[12, 100]
    /\ avatarController.morphMeshes[1].morphTargetInfluences[2] = Zero

-----------------------------------------------------------------------------
(* Properties of the influences, checked under SpecFace *)

\* a number from 0 to 1
InUnitRange(v) == IsFinite[v] /\ ~RLess[v, Zero] /\ ~RGreater[v, One]

\* C14: after any sequence of updateFromFaceData calls, on degenerate faces
\* too, every influence of every mesh is a number from 0 to 1.
C14_InfluencesInUnitRange ==
    \A k \in DOMAIN avatarController.morphMeshes :
        \A j \in DOMAIN avatarController.morphMeshes[k].morphTargetInfluences :
            InUnitRange(avatarController.morphMeshes[k].morphTargetInfluences[j])

-----------------------------------------------------------------------------
(* Properties of the ticks of the tracking loop, checked under Spec *)

\* C15: while the video is at the time of the last processed tick, a run of
\* trackLoop invokes neither detector, emits no gesture event and leaves the
\* frame counter, the last hand result, the wrist history, both cooldown
\* timestamps, the smoothed values and the influences as they were.
C15_SameFrameStep ==
    videoTime = lastVideoTime =>
        /\ frameCount' = frameCount
        /\ lastResults' = lastResults
        /\ wristHistory' = wristHistory
        /\ lastWaveTime' = lastWaveTime
        /\ lastThumbsUpTime' = lastThumbsUpTime
        /\ avatarController' = avatarController
        /\ fired' = fired
        /\ tickLog' # tickLog =>
               /\ ~Did("faceDetector")' /\ ~Did("handDetector")' /\ ~Did("detectHands")'
               /\ ~Did("waveDetected")' /\ ~Did("thumbsUpDetected")'
               /\ Did("requestAnimationFrame")'
C15_SameFrameTickChangesNothing == [][C15_SameFrameStep]_vars

\* trackLoop ran on an unchanged video time after ticks that had filled the
\* frame counter, the wrist history and the avatar
C15_Witness ==
    /\ tickLog = <<"requestAnimationFrame">>
    /\ videoTime = lastVideoTime
    /\ lastVideoTime >= 1
    /\ wristHistory # <<>>
    /\ avatarController.smoothedMouth # Zero

\* C16: every processed tick invokes the face detector; the hand detector is
\* invoked on the 2nd, 4th, ... processed tick and on no other, and a tick in
\* between leaves the last hand result as it was.
C16_ThrottleStep ==
    ProcessedTick =>
        /\ Did("faceDetector")'
        /\ Did("handDetector")' <=> processedTicks' % 2 = 0
        /\ processedTicks' % 2 = 1 => lastResults' = lastResults
C16_HandDetectorEverySecondTick == [][C16_ThrottleStep]_vars

\* what a tick does for the face and the avatar, and for the hands and gestures
FaceEntries == {"faceDetector", "faceDetectorError", "updateFromFaceData", "updateError"}
HandEntries ==
    {"detectHands", "handDetector", "handDetectorError", "detectWave", "waveDetected",
     "confetti", "notifyWave", "detectThumbsUp", "thumbsUpDetected", "sparkle",
     "notifyThumbsUp"}

\* in the log every entry of the set first comes before every entry of then
Before(log, first, then) ==
    \A i, j \in 1..Len(log) : log[i] \in first /\ log[j] \in then => i < j

\* C17: in every processed tick the face detection and the avatar update come
\* before the hand detection and the gesture classification, and both come
\* before that tick's updateUI call.
C17_OrderStep ==
    ProcessedTick =>
        /\ Before(tickLog', FaceEntries, HandEntries)
        /\ Before(tickLog', FaceEntries \cup HandEntries, {"updateUI"})
        /\ Did("updateUI")' => Did("faceDetector")' /\ Did("detectHands")'
C17_FaceThenHandsThenDisplay == [][C17_OrderStep]_vars

\* a tick that updated the avatar, detected hands, classified both gestures
\* and updated the display
C17_Witness ==
    /\ Did("updateFromFaceData")
    /\ Did("handDetector")
    /\ Did("detectWave")
    /\ Did("detectThumbsUp")
    /\ Did("updateUI")

\* C18: a tick on which detectHands reuses the last hand result without
\* running the detector adds no sample to the wrist history.
C18_ReuseStep ==
    (ProcessedTick /\ Did("detectHands")' /\ ~Did("handDetector")') =>
        wristHistory' = wristHistory
C18_OneSamplePerDetection == [][C18_ReuseStep]_vars

-----------------------------------------------------------------------------
(* Properties of the sampling, checked under SpecGesture *)

\* C19: every detectWave call made while a hand is present appends the wrist
\* of the primary hand to the history, also inside the cooldown after a
\* firing; only a call that fires leaves the history empty instead.
C19_SampleStep ==
    (WaveCalled /\ HasHands(lastResults)) =>
        \/ wristHistory' = Pushed
        \/ waveRet' /\ wristHistory' = <<>>
C19_SampledDuringCooldown == [][C19_SampleStep]_vars

-----------------------------------------------------------------------------
(* Properties of the loop in front of a waving hand, checked under SpecWave *)

\* how often the entry e is in the log
Times(log, e) == Cardinality({i \in 1..Len(log) : log[i] = e})

\* C20: the loop running over consecutive new frames, with gesture effects
\* enabled and the detector reporting a wrist that alternates between two x
\* more than 0.12 apart at one height, eventually fires the wave gesture, and
\* a tick that fires it triggers the confetti once and the notification once.
C20_WaveEventuallyFires ==
    /\ <>Did("waveDetected")
    /\ [][(ProcessedTick /\ Did("waveDetected")') =>
             Times(tickLog', "confetti") = 1 /\ Times(tickLog', "notifyWave") = 1]_vars

-----------------------------------------------------------------------------
(* Properties of the channels of a mesh, checked under SpecMorph *)

\* C21: after every updateFromFaceData call the influence at the index each
\* channel resolves to holds that channel's own value, for every mesh: no
\* channel's write is overwritten by another channel's.
C21_EveryChannelKeepsItsValue ==
    \A m \in DOMAIN avatarController.morphMeshes :
        LET mesh == avatarController.morphMeshes[m]
            channels == Channels(avatarController)
        IN  \A k \in 1..Len(channels) :
                LET idx == FirstAlias(mesh.morphTargetDictionary, channels[k].names)
                IN  idx >= 0 => mesh.morphTargetInfluences[idx] = channels[k].value

-----------------------------------------------------------------------------
(* Properties of the avatar loading, checked under SpecLoad *)

\* C22: whatever the order of the success, error and timeout callbacks, at
\* most one avatar is added to the scene, no model whose attempt timed out is
\* added, and the avatar and the controller of the application are those of
\* the one model added.
C22_AtMostOneAvatarInScene ==
    /\ Len(scene) <= 1
    /\ \A k \in 1..Len(scene) : timers[scene[k]] # "fired"
    /\ scene # <<>> =>
           /\ avatar = scene[1]
           /\ avatarController = NewAvatarController(AvatarModels[scene[1]].headBone,
                                                     AvatarModels[scene[1]].morphMeshes)

-----------------------------------------------------------------------------
(* Properties of an avatar without a head bone, checked under SpecFace *)

\* C23: on an avatar without a head bone a call of updateFromFaceData, with
\* whatever landmarks, leaves the smoothed blink, mouth, smile and brow values
\* and every influence of every mesh as they were, and does not throw.
C23_NoHeadBoneStep ==
    (~avatarController.headBone.present /\ updates' = updates + 1) =>
        /\ avatarController'.smoothedBlink = avatarController.smoothedBlink
        /\ avatarController'.smoothedMouth = avatarController.smoothedMouth
        /\ avatarController'.smoothedSmile = avatarController.smoothedSmile
        /\ avatarController'.smoothedBrowRaise = avatarController.smoothedBrowRaise
        /\ \A k \in DOMAIN avatarController.morphMeshes :
               avatarController'.morphMeshes[k].morphTargetInfluences
                   = avatarController.morphMeshes[k].morphTargetInfluences
        /\ ~updateThrew'
C23_NoHeadBoneNoExpression == [][C23_NoHeadBoneStep]_vars

\* an avatar without a head bone was given an expressive face twice and is
\* still at rest
C23_Witness ==
    /\ ~avatarController.headBone.present
    /\ landmarksIn = Landmarks(FaceExpressive)
    /\ held = 2
    /\ avatarController.smoothedMouth = Zero
    /\ avatarController.smoothedBlink.left = One

====
